---------------------------- MODULE Spec2Model ----------------------------
(***************************************************************************)
(* A model of rsjpeg: the canonical Huffman table builder and entropy      *)
(* decoder of src/src/huffman.rs and the nom segment scanner of            *)
(* src/src/parser.rs.                                                      *)
(*                                                                         *)
(* Bytes are integers 0..255, bit slices are sequences over {0,1} with the *)
(* most significant bit first (BigEndian cursor), u16 arithmetic is kept   *)
(* at its width.  The build profile decides what an arithmetic overflow    *)
(* does (overflow_checks: a panic, otherwise a wrap), so it is part of the *)
(* state.                                                                  *)
(***************************************************************************)
EXTENDS Integers, Sequences, FiniteSets, TLC

VARIABLES
    entry,            \* the function under call
    overflow_checks,  \* TRUE: debug profile, arithmetic overflow panics
    self,             \* the HuffmanTable of a huffman.rs call
    code,             \* the byte buffer given to huffman_decode
    file,             \* the layout the input buffer was laid out from
    jpeg_file,        \* the byte buffer given to the parser
    input,            \* many_till!: the slice still to be parsed
    res,              \* many_till!: the markers collected so far
    pc,               \* position of the call
    ret               \* the value returned (or the panic raised)

vars == <<entry, overflow_checks, self, code, file, jpeg_file, input, res, pc, ret>>

---------------------------------------------------------------------------
(* Widths and sizes fixed by the program. *)

\* [Vec<u16>; 16]: one bucket per code length
NumLengths == 16
\* width of u16 (current_code, the symbols, the segment length)
U16Bits == 16
\* width of the bytes of the input buffers
U8Bits == 8

RECURSIVE Pow2(_)
Pow2(n) == IF n = 0 THEN 1 ELSE 2 * Pow2(n - 1)

U16Mod == Pow2(U16Bits)

Min(a, b) == IF a < b THEN a ELSE b

---------------------------------------------------------------------------
(* bitvec: BigEndian bit views. *)

\* the w bits of v, most significant first
BitsOf(v, w) == [k \in 1..w |-> (v \div Pow2(w - k)) % 2]

\* BitVec::<BigEndian, u16>::from_element / u16::as_bitslice
from_element(v) == BitsOf(v, U16Bits)

\* &[u8] -> &BitSlice<BigEndian, u8>
RECURSIVE into_bitslice(_)
into_bitslice(bytes) ==
    IF bytes = << >> THEN << >>
    ELSE BitsOf(Head(bytes), U8Bits) \o into_bitslice(Tail(bytes))

\* u16::to_be_bytes
to_be_bytes(v) == << v \div Pow2(U8Bits), v % Pow2(U8Bits) >>

\* HashMap::insert: a later insert under an equal key replaces the value
Insert(m, k, v) == [x \in (DOMAIN m) \cup {k} |-> IF x = k THEN v ELSE m[x]]

EmptyMap == [x \in {} |-> 0]

---------------------------------------------------------------------------
(* huffman.rs: HuffmanTable::make_translation_map *)

\* current_code + 1 on u16: panics under overflow checks, wraps otherwise
IncrementCode(st, checks) ==
    IF st.current_code + 1 >= U16Mod
    THEN IF checks THEN [st EXCEPT !.panic = TRUE]
                   ELSE [st EXCEPT !.current_code = (st.current_code + 1) % U16Mod]
    ELSE [st EXCEPT !.current_code = st.current_code + 1]

\* ShiftCode without the shift
ShiftCode_NoShift(st) == st

\* current_code << 1 on u16: the bit shifted out is dropped
ShiftCode(st) == [st EXCEPT !.current_code = (st.current_code * 2) % U16Mod]

\* for i in 0..self.symbols[len].len()  (len is the 0-based bucket index)
RECURSIVE translation_bucket(_, _, _, _, _)
translation_bucket(table, len, i, st, checks) ==
    IF st.panic \/ i > Len(table.symbols[len + 1]) THEN st
    ELSE LET current_bits == from_element(st.current_code)
             n    == Len(table.symbols)
             key  == SubSeq(current_bits, (n - (len + 1)) + 1, n)
             ins  == [st EXCEPT !.translation =
                          Insert(st.translation, key, table.symbols[len + 1][i])]
         IN  translation_bucket(table, len, i + 1, IncrementCode(ins, checks), checks)

\* translation_lengths with the shift inside the loop over the symbols' bucket
\* taken only for a bucket that holds a symbol
RECURSIVE translation_lengths_SkipEmpty(_, _, _, _)
translation_lengths_SkipEmpty(table, len, st, checks) ==
    IF st.panic \/ len >= Len(table.symbols) THEN st
    ELSE LET filled == translation_bucket(table, len, 1, st, checks)
         IN  IF filled.panic THEN filled
             ELSE translation_lengths_SkipEmpty(table, len + 1,
                      IF table.symbols[len + 1] = << >> THEN filled ELSE ShiftCode(filled),
                      checks)

\* for len in 0..self.symbols.len()
RECURSIVE translation_lengths(_, _, _, _)
translation_lengths(table, len, st, checks) ==
    IF st.panic \/ len >= Len(table.symbols) THEN st
    ELSE LET filled == translation_bucket(table, len, 1, st, checks)
         IN  IF filled.panic THEN filled
             ELSE translation_lengths(table, len + 1, ShiftCode(filled), checks)

\* the map, or panic = TRUE when the increment overflowed under overflow checks
make_translation_map(table, checks) ==
    translation_lengths(table, 0,
        [translation |-> EmptyMap, current_code |-> 0, panic |-> FALSE], checks)

---------------------------------------------------------------------------
(* huffman.rs: HuffmanTable::huffman_decode *)

DecodeOk(bytes) == [res |-> "Ok", out |-> bytes]
DecodeErr == [res |-> "Err", out |-> << >>]
Panicked == [res |-> "Panic", out |-> << >>]

\* for symbol in &self.symbols[len - 1]: every symbol whose low len bits equal
\* the window advances the cursor and is looked up under its full 16-bit view
RECURSIVE match_symbols(_, _, _, _, _, _)
match_symbols(bucket, k, len, sub_slice, translation, st) ==
    IF k > Len(bucket) THEN st
    ELSE LET symbol     == bucket[k]
             bit_symbol == from_element(symbol)
             bits       == SubSeq(bit_symbol, (U16Bits - len) + 1, U16Bits)
         IN  IF bits # sub_slice
             THEN match_symbols(bucket, k + 1, len, sub_slice, translation, st)
             ELSE IF bit_symbol \in DOMAIN translation
                  THEN match_symbols(bucket, k + 1, len, sub_slice, translation,
                         [st EXCEPT !.cursor = st.cursor + len,
                                    !.found  = TRUE,
                                    !.result = st.result \o to_be_bytes(translation[bit_symbol])])
                  ELSE [st EXCEPT !.cursor = st.cursor + len, !.found = TRUE, !.err = TRUE]

\* for len in 1usize..=self.symbols.len()
RECURSIVE try_lengths(_, _, _, _, _)
try_lengths(table, bits, translation, len, st) ==
    IF len > Len(table.symbols) THEN st
    ELSE IF st.cursor + len >= Len(bits) THEN st
    ELSE LET sub_slice == SubSeq(bits, st.cursor + 1, st.cursor + len)
             tried == match_symbols(table.symbols[len], 1, len, sub_slice, translation,
                                    [st EXCEPT !.found = FALSE])
         IN  IF tried.err \/ tried.found THEN tried
             ELSE try_lengths(table, bits, translation, len + 1, tried)

\* while cursor < bits.len()
RECURSIVE decode_loop(_, _, _, _)
decode_loop(table, bits, translation, st) ==
    IF st.cursor >= Len(bits) THEN DecodeOk(st.result)
    ELSE LET tried == try_lengths(table, bits, translation, 1, st)
         IN  IF tried.err THEN DecodeErr
             ELSE IF tried.cursor = st.cursor THEN DecodeErr
             ELSE decode_loop(table, bits, translation, tried)

huffman_decode(table, bytes, checks) ==
    LET built == make_translation_map(table, checks)
    IN  IF built.panic THEN Panicked
        ELSE decode_loop(table, into_bitslice(bytes), built.translation,
                 [cursor |-> 0, found |-> FALSE, result |-> << >>, err |-> FALSE])

---------------------------------------------------------------------------
(* nom 4 over &[u8]: a parser returns Ok((rest, out)), Err(Error),         *)
(* Err(Incomplete), or unwinds with a panic.                               *)

POk(rest, out) == [res |-> "Ok", rest |-> rest, out |-> out]
PFail(kind) == [res |-> kind, rest |-> << >>, out |-> << >>]

Drop(i, n) == SubSeq(i, n + 1, Len(i))

\* tag!: Error on the first differing byte, Incomplete when the input is a
\* proper prefix of the tag
tag(i, t) ==
    IF \E k \in 1..Min(Len(i), Len(t)) : i[k] # t[k] THEN PFail("Error")
    ELSE IF Len(i) >= Len(t) THEN POk(Drop(i, Len(t)), t)
    ELSE PFail("Incomplete")

be_u8(i) == IF Len(i) < 1 THEN PFail("Incomplete") ELSE POk(Drop(i, 1), i[1])

be_u16(i) ==
    IF Len(i) < 2 THEN PFail("Incomplete")
    ELSE POk(Drop(i, 2), i[1] * Pow2(U8Bits) + i[2])

\* take!(cnt)
take(i, cnt) ==
    IF cnt > Len(i) THEN PFail("Incomplete") ELSE POk(Drop(i, cnt), SubSeq(i, 1, cnt))

\* complete!: Incomplete becomes Error
complete(r) == IF r.res = "Incomplete" THEN PFail("Error") ELSE r

\* count!(be_u8, n) and count_fixed!(u8, be_u8, n)
RECURSIVE count_be_u8(_, _, _)
count_be_u8(i, acc, n) ==
    IF Len(acc) = n THEN POk(i, acc)
    ELSE IF be_u8(i).res # "Ok" THEN be_u8(i)
    ELSE count_be_u8(Drop(i, 1), Append(acc, be_u8(i).out), n)

\* FindSubstring for &[u8]: the offset of the first occurrence, or -1
RECURSIVE find_substring(_, _, _)
find_substring(i, substr, offset) ==
    IF offset + Len(substr) > Len(i) THEN -1
    ELSE IF SubSeq(i, offset + 1, offset + Len(substr)) = substr THEN offset
    ELSE find_substring(i, substr, offset + 1)

\* take_until! that takes the substring as well
take_until_Inclusive(i, substr) ==
    IF find_substring(i, substr, 0) < 0 THEN PFail("Incomplete")
    ELSE POk(Drop(i, find_substring(i, substr, 0) + Len(substr)),
             SubSeq(i, 1, find_substring(i, substr, 0) + Len(substr)))

\* take_until!(substr)
take_until(i, substr) ==
    IF find_substring(i, substr, 0) < 0 THEN PFail("Incomplete")
    ELSE POk(Drop(i, find_substring(i, substr, 0)),
             SubSeq(i, 1, find_substring(i, substr, 0)))

---------------------------------------------------------------------------
(* parser.rs: the segment parsers *)

SOI == << 255, 216 >>
EOI == << 255, 217 >>
SOS == << 255, 218 >>
DHT == << 255, 196 >>
DQT == << 255, 219 >>
\* take!(64): the coefficients of a quantization table
QuantLen == 64
\* take_bits!(u8, 4): the width of the class and id fields
NibbleBits == 4

\* do_parse!(a >> b ..): the next parser runs on what the one before left, the
\* first result that is not Ok is the result of the whole
Then(r, K(_)) == IF r.res = "Ok" THEN K(r) ELSE r

\* color_component_metadata
color_component_metadata(i) ==
    Then(be_u8(i), LAMBDA id :
    Then(be_u8(id.rest), LAMBDA sampling_resolution :
    Then(be_u8(sampling_resolution.rest), LAMBDA quantization_table_ :
    POk(quantization_table_.rest,
        [id |-> id.out, sampling_resolution |-> sampling_resolution.out,
         quantization_table |-> quantization_table_.out]))))

\* count!(color_component_metadata, components.into())
RECURSIVE count_components(_, _, _)
count_components(i, acc, n) ==
    IF Len(acc) = n THEN POk(i, acc)
    ELSE Then(color_component_metadata(i), LAMBDA r :
             count_components(r.rest, Append(acc, r.out), n))

start_of_stream_metadata(i) ==
    Then(be_u8(i), LAMBDA precision :
    Then(be_u16(precision.rest), LAMBDA height :
    Then(be_u16(height.rest), LAMBDA width :
    Then(be_u8(width.rest), LAMBDA components :
    Then(count_components(components.rest, << >>, components.out), LAMBDA component_metadata :
    POk(component_metadata.rest,
        [precision |-> precision.out, height |-> height.out, width |-> width.out,
         component_metadata |-> component_metadata.out]))))))

start_of_stream(i) ==
    Then(tag(i, SOS), LAMBDA t :
    Then(be_u16(t.rest), LAMBDA length :
    Then(start_of_stream_metadata(length.rest), LAMBDA metadata :
    Then(take_until(metadata.rest, EOI), LAMBDA data :
    POk(data.rest, [marker |-> "Image", metadata |-> metadata.out, data |-> data.out])))))

\* the two nibbles taken low nibble first
id_class_bits_LowFirst(i) ==
    IF Len(i) * U8Bits < NibbleBits THEN PFail("Incomplete")
    ELSE POk(Drop(i, 1), << i[1] % Pow2(NibbleBits), i[1] \div Pow2(NibbleBits) >>)

\* bits!(pair!(take_bits!(u8, 4), take_bits!(u8, 4)))
id_class_bits(i) ==
    IF Len(i) * U8Bits < NibbleBits THEN PFail("Incomplete")
    ELSE POk(Drop(i, 1), << i[1] \div Pow2(NibbleBits), i[1] % Pow2(NibbleBits) >>)

\* s1 .. s16: count!(be_u8, symbols_length[k].into()), in length order
RECURSIVE symbol_buckets(_, _, _)
symbol_buckets(i, symbols_length, acc) ==
    IF Len(acc) = Len(symbols_length) THEN POk(i, acc)
    ELSE Then(count_be_u8(i, << >>, symbols_length[Len(acc) + 1]), LAMBDA s :
             symbol_buckets(s.rest, symbols_length, Append(acc, s.out)))

\* the match on id_class
DHTClass(id_class) ==
    CASE id_class = << 0, 0 >> -> "LuminanceDC"
      [] id_class = << 0, 1 >> -> "LuminanceAC"
      [] id_class = << 1, 0 >> -> "ChrominanceDC"
      [] id_class = << 1, 1 >> -> "ChrominanceAC"
      [] OTHER -> "none"

\* the body of huffman_table; the `return` of the class match leaves the
\* function at once ("Return" here, the Incomplete it carries below)
huffman_table_fields(i) ==
    Then(id_class_bits(i), LAMBDA id_class :
    Then(count_be_u8(id_class.rest, << >>, NumLengths), LAMBDA symbols_length :
    Then(symbol_buckets(symbols_length.rest, symbols_length.out, << >>), LAMBDA s :
    IF DHTClass(id_class.out) = "none" THEN PFail("Return")
    ELSE POk(s.rest, [class |-> DHTClass(id_class.out), symbols |-> s.out]))))

\* the early return is Err(Incomplete(Needed::Size(5))), not seen by complete!
EarlyReturn(r) == IF r.res = "Return" THEN PFail("Incomplete") ELSE r

\* huffman_table: complete!(do_parse!(...))
huffman_table(i) == EarlyReturn(complete(huffman_table_fields(i)))

\* many1!: after the first table, an Error ends the list, any other failure
\* is the failure of the whole
ManyMore(i, acc, r, K(_, _)) ==
    IF r.res = "Error" THEN POk(i, acc)
    ELSE IF r.res # "Ok" THEN r
    ELSE IF Len(r.rest) = Len(i) THEN POk(i, acc)
    ELSE K(r.rest, Append(acc, r.out))

RECURSIVE many1_loop(_, _)
many1_loop(i, acc) ==
    ManyMore(i, acc, huffman_table(i), LAMBDA rest, tables : many1_loop(rest, tables))

\* many1!(huffman_table)
many1_huffman_table(i) ==
    Then(huffman_table(i), LAMBDA first : many1_loop(first.rest, << first.out >>))

huffman_tables(i) ==
    Then(tag(i, DHT), LAMBDA t :
    Then(take(t.rest, 2), LAMBDA skipped :
    Then(many1_huffman_table(skipped.rest), LAMBDA tables :
    POk(tables.rest, [marker |-> "DHT", tables |-> tables.out]))))

quantization_table(i) ==
    Then(tag(i, DQT), LAMBDA t :
    Then(be_u16(t.rest), LAMBDA length :
    Then(be_u8(length.rest), LAMBDA id :
    Then(take(id.rest, QuantLen), LAMBDA data :
    POk(data.rest, [marker |-> "DQT", id |-> id.out, data |-> data.out])))))

\* the declared length taken as the payload length
PayloadLength_Declared(length) == length

\* length - 2 on u16, wrapped
PayloadLength(length) == (length + U16Mod - 2) % U16Mod

\* length - 2 on u16: panics under overflow checks when length < 2
Underflows(length, checks) == length < 2 /\ checks

some_marker(i, checks) ==
    Then(tag(i, << 255 >>), LAMBDA t :
    Then(be_u8(t.rest), LAMBDA tg :
    Then(be_u16(tg.rest), LAMBDA length :
    IF Underflows(length.out, checks) THEN PFail("Panic") ELSE
    Then(take(length.rest, PayloadLength(length.out)), LAMBDA data :
    POk(data.rest, [marker |-> "Other", tag |-> tg.out,
                    length |-> PayloadLength(length.out), data |-> data.out])))))

\* one alternative of alt_complete!: complete!(alternative); an Error moves on
\* to the next alternative, the last Error is the result
Alternative(r, next) ==
    IF r.res \in {"Error", "Incomplete"} THEN complete(next) ELSE r

\* alt_complete!(start_of_stream | huffman_tables | quantization_table | some_marker)
alt_complete(i, checks) ==
    Alternative(start_of_stream(i),
      Alternative(huffman_tables(i),
        Alternative(quantization_table(i),
          some_marker(i, checks))))

soi(i) == tag(i, SOI)

\* one turn of many_till!(alt_complete!(...), tag!(b"\xff\xd9")): the end tag
\* ends the loop, else a segment is parsed, which must consume input
TillOrSegment(i, acc, till, seg, K(_, _)) ==
    IF till.res = "Ok" THEN POk(till.rest, acc)
    ELSE IF seg.res # "Ok" THEN complete(seg)
    ELSE IF seg.rest = i THEN PFail("Error")
    ELSE K(seg.rest, Append(acc, seg.out))

RECURSIVE jfif(_, _, _)
jfif(i, acc, checks) ==
    TillOrSegment(i, acc, tag(i, EOI), alt_complete(i, checks),
                  LAMBDA rest, markers : jfif(rest, markers, checks))

\* preceded!(soi, jfif)
jpeg(i, checks) == Then(soi(i), LAMBDA s : jfif(s.rest, << >>, checks))

\* decode: Ok(markers), or Err(ParserError) for Error and Incomplete alike
decode(bytes, checks) ==
    IF jpeg(bytes, checks).res = "Ok" THEN DecodeOk(jpeg(bytes, checks).out)
    ELSE IF jpeg(bytes, checks).res = "Panic" THEN Panicked
    ELSE DecodeErr

---------------------------------------------------------------------------
(* Bounds of the inputs. *)

\* code lengths a generated table fills, counted from its base length
MaxCodeLen == 3
\* symbols per bucket of a generated table
MaxBucket == 2
\* bytes of a buffer given to huffman_decode
MaxCodeBytes == 2
\* segments between the start-of-image and the end-of-image marker
MaxSegs == 2
\* bytes cut off the end of a buffer that has no end-of-image marker
MaxCut == 1
\* bytes that follow the end-of-image marker
TrailLen == 13

---------------------------------------------------------------------------
(* Huffman tables given to huffman.rs. *)

Zeros(n) == [k \in 1..n |-> 0]

RECURSIVE SumTo(_, _)
SumTo(f, n) == IF n = 0 THEN 0 ELSE f[n] + SumTo(f, n - 1)

\* the 16 buckets that hold shape[k] symbols at length base + k; the symbols
\* are numbered 1, 2, ... in length order, or are all zero
Buckets(shape, base, distinct) ==
    [L \in 1..NumLengths |->
        IF L - base \in DOMAIN shape
        THEN [j \in 1..shape[L - base] |->
                 IF distinct THEN SumTo(shape, L - base - 1) + j ELSE 0]
        ELSE << >>]

Shapes == [1..MaxCodeLen -> 0..MaxBucket]
Bases == {0, NumLengths - MaxCodeLen}

\* make_translation_map_test
TestTable1 ==
    << << >>, <<1>>, <<2, 17>>, <<0, 3, 4, 33>>, <<5, 18, 49>>, <<6, 65, 81, 97>>,
       <<19, 34, 113, 129, 145, 161>>, <<20, 50, 177, 209, 240>>,
       <<21, 35, 53, 66, 178, 193>>, <<7, 22, 36, 51, 82, 114, 115, 225>>,
       <<37, 52, 67, 83, 98, 116, 130, 148, 162, 241>>,
       <<38, 68, 84, 99, 100, 146, 147, 194, 210>>, <<85, 86, 132, 179>>,
       <<69, 131>>, <<70, 163, 226>>, << >> >>

\* huffman_decode_test
TestTable2 ==
    [L \in 1..NumLengths |->
        CASE L = 2 -> <<1, 2>> [] L = 3 -> <<3>> [] L = 4 -> <<17, 4, 0>> [] OTHER -> << >>]

\* one code of every length, and `last` codes of length n on top: with
\* last = 2 the code is complete and its longest code is all ones
Ladder(n, last) ==
    [L \in 1..NumLengths |->
        IF L < n THEN << L >> ELSE IF L = n THEN [j \in 1..last |-> n + j - 1] ELSE << >>]

\* a table whose only bucket holds the same 16-bit symbol twice
Twice16 == [L \in 1..NumLengths |-> IF L = NumLengths THEN <<0, 0>> ELSE << >>]

SymbolTables ==
    { Buckets(shape, base, d) : shape \in Shapes, base \in Bases, d \in BOOLEAN }
    \cup { TestTable1, TestTable2, Twice16,
           Ladder(NumLengths, 1), Ladder(NumLengths, 2), Ladder(NumLengths, 3),
           Ladder(NumLengths - 1, 2) }

Tables == { [class |-> "ChrominanceAC", symbols |-> b] : b \in SymbolTables }

\* the bytes huffman_decode is given
CodeBytes == {0, 171}

RECURSIVE SeqsUpTo(_, _)
SeqsUpTo(S, n) ==
    IF n = 0 THEN { << >> }
    ELSE LET shorter == SeqsUpTo(S, n - 1)
         IN  shorter \cup { Append(q, x) : q \in shorter, x \in S }

\* <<28, 171>> is the buffer of huffman_decode_test
Codes == SeqsUpTo(CodeBytes, MaxCodeBytes) \cup { <<28, 171>>, <<0, 0, 0>> }

---------------------------------------------------------------------------
(* The layout of a buffer given to parser.rs: what each segment of the     *)
(* file is meant to hold, and the bytes the format writes for it.          *)

NoMeta == [precision |-> 0, height |-> 0, width |-> 0, component_metadata |-> << >>]

Seg(kind, tg, declared, id, meta, tables, data) ==
    [kind |-> kind, tag |-> tg, declared |-> declared, id |-> id, meta |-> meta,
     tables |-> tables, data |-> data]

RECURSIVE Flatten(_)
Flatten(ss) == IF ss = << >> THEN << >> ELSE Head(ss) \o Flatten(Tail(ss))

U16BE(v) == << (v \div 256) % 256, v % 256 >>

\* a table definition: class/id byte, 16 counts, the symbols in length order
TableBytes(t) ==
    << t.id_class >> \o [L \in 1..NumLengths |-> Len(t.symbols[L])] \o Flatten(t.symbols)

RECURSIVE TablesBytes(_)
TablesBytes(ts) == IF ts = << >> THEN << >> ELSE TableBytes(Head(ts)) \o TablesBytes(Tail(ts))

ComponentBytes(c) == << c.id, c.sampling_resolution, c.quantization_table >>

RECURSIVE ComponentsBytes(_)
ComponentsBytes(cs) ==
    IF cs = << >> THEN << >> ELSE ComponentBytes(Head(cs)) \o ComponentsBytes(Tail(cs))

MetaBytes(m) ==
    << m.precision >> \o U16BE(m.height) \o U16BE(m.width)
      \o << Len(m.component_metadata) >> \o ComponentsBytes(m.component_metadata)

\* the bytes a declared length counts, after the length field itself
SegHeader(seg) ==
    CASE seg.kind = "generic" -> seg.data
      [] seg.kind = "dqt"     -> << seg.id >> \o seg.data
      [] seg.kind = "dht"     -> TablesBytes(seg.tables)
      [] seg.kind = "sos"     -> MetaBytes(seg.meta)

\* the entropy-coded bytes that follow a scan header, up to end-of-image
SegPayload(seg) == IF seg.kind = "sos" THEN seg.data ELSE << >>

SegBytes(seg) ==
    << 255, seg.tag >> \o U16BE(seg.declared) \o SegHeader(seg) \o SegPayload(seg)

ExactLength(seg) == 2 + Len(SegHeader(seg))

RECURSIVE SegsBytes(_)
SegsBytes(segs) == IF segs = << >> THEN << >> ELSE SegBytes(Head(segs)) \o SegsBytes(Tail(segs))

LayoutBytes(f) ==
    LET whole == (IF f.soi THEN SOI ELSE << >>) \o SegsBytes(f.segs)
                   \o (IF f.eoi THEN EOI ELSE << >>) \o f.trail
    IN  SubSeq(whole, 1, Len(whole) - Min(f.cut, Len(whole)))

NoBuckets == [L \in 1..NumLengths |-> << >>]
T0   == [id_class |-> 0,  symbols |-> NoBuckets]
TSym == [id_class |-> 17, symbols |-> Buckets(<<0, 2, 1>>, 0, TRUE)]
TBad == [id_class |-> 34, symbols |-> NoBuckets]

Generic(tg, declared, data) == Seg("generic", tg, declared, 0, NoMeta, << >>, data)
Dht(declared, tables) == Seg("dht", 196, declared, 0, NoMeta, tables, << >>)
Dqt(declared) == Seg("dqt", 219, declared, 0, NoMeta, << >>, [k \in 1..QuantLen |-> k])
Scan(declared, meta, data) == Seg("sos", 218, declared, 0, meta, << >>, data)

Meta0 == [precision |-> 1, height |-> 256, width |-> 63, component_metadata |-> << >>]
Meta1 == [precision |-> 8, height |-> 1, width |-> 1, component_metadata |->
            << [id |-> 1, sampling_resolution |-> 17, quantization_table |-> 0] >>]

\* the segments a file is laid out from
Segments ==
    { Generic(224, 4, <<1, 2>>), Generic(224, 2, << >>), Generic(0, 15, Zeros(13)),
      Generic(224, 0, << >>),
      Dht(19, << T0 >>), Dht(22, << TSym >>), Dht(19, << TBad >>),
      Dht(19, << T0, T0 >>), Dht(2, << T0 >>),
      Dqt(67), Dqt(0),
      Scan(8, Meta0, <<210, 207, 32>>), Scan(11, Meta1, << >>) }

Layout(soi_, segs, eoi_, trail, cut) ==
    [soi |-> soi_, segs |-> segs, eoi |-> eoi_, trail |-> trail, cut |-> cut]

NoFile == Layout(FALSE, << >>, FALSE, << >>, 0)

\* the files given to decode: with both markers (and bytes after the last),
\* cut short without an end-of-image marker, or without the start marker
JpegLayouts ==
    { Layout(TRUE, segs, TRUE, trail, 0) :
          segs \in SeqsUpTo(Segments, MaxSegs), trail \in { << >>, Zeros(TrailLen) } }
    \cup { Layout(TRUE, segs, FALSE, << >>, cut) :
          segs \in SeqsUpTo(Segments, 1), cut \in 0..MaxCut }
    \cup { Layout(FALSE, segs, TRUE, << >>, 0) : segs \in SeqsUpTo(Segments, 1) }

\* a define-Huffman-table segment of one table, its declared length exact or
\* that of the bare length field
OneTable(c, symbols, exact) ==
    LET t == [id_class |-> c, symbols |-> symbols]
    IN  Dht(IF exact THEN 2 + Len(TableBytes(t)) ELSE 2, << t >>)

\* the class/id bytes of the table definitions given to huffman_tables
IdClassBytes == {0, 1, 16, 17, 34, 255}

\* the buffers given to huffman_tables: one define-Huffman-table segment, alone,
\* with a wrong declared length, cut short, or followed by more input
DhtLayouts ==
    { Layout(FALSE, << OneTable(c, Buckets(shape, 0, TRUE), exact) >>, eoi_, << >>, 0) :
          shape \in Shapes, c \in IdClassBytes, exact \in BOOLEAN, eoi_ \in BOOLEAN }
    \cup { Layout(FALSE, << seg >>, FALSE, trail, 0) :
          seg \in { x \in Segments : x.kind = "dht" }, trail \in { << >>, Zeros(TrailLen) } }
    \cup { Layout(FALSE, << seg >>, FALSE, << >>, cut) :
          seg \in { x \in Segments : x.kind = "dht" }, cut \in 1..MaxCut }

---------------------------------------------------------------------------
(* The calls. *)

NoRet == [res |-> "none", out |-> << >>]

HuffmanInit ==
    /\ entry \in {"make_translation_map", "huffman_decode"}
    /\ overflow_checks \in BOOLEAN
    /\ self \in Tables
    /\ code \in (IF entry = "huffman_decode" THEN Codes ELSE { << >> })
    /\ file = NoFile
    /\ jpeg_file = << >>
    /\ input = << >>
    /\ res = << >>
    /\ pc = "call"
    /\ ret = NoRet

ParserInit ==
    /\ entry \in {"decode", "huffman_tables"}
    /\ overflow_checks \in BOOLEAN
    /\ self = [class |-> "LuminanceDC", symbols |-> NoBuckets]
    /\ code = << >>
    /\ file \in (IF entry = "decode" THEN JpegLayouts ELSE DhtLayouts)
    /\ jpeg_file = LayoutBytes(file)
    /\ input = jpeg_file
    /\ res = << >>
    /\ pc = IF entry = "decode" THEN "soi" ELSE "call"
    /\ ret = NoRet

Init == HuffmanInit \/ ParserInit

Inputs == <<entry, overflow_checks, self, code, file, jpeg_file>>

\* table.make_translation_map()
CallMakeTranslationMap ==
    /\ entry = "make_translation_map" /\ pc = "call"
    /\ LET built == make_translation_map(self, overflow_checks)
       IN  ret' = IF built.panic THEN Panicked ELSE DecodeOk(built.translation)
    /\ pc' = "done"
    /\ UNCHANGED <<Inputs, input, res>>

\* table.huffman_decode(code)
CallHuffmanDecode ==
    /\ entry = "huffman_decode" /\ pc = "call"
    /\ ret' = huffman_decode(self, code, overflow_checks)
    /\ pc' = "done"
    /\ UNCHANGED <<Inputs, input, res>>

\* huffman_tables(&buffer)
CallHuffmanTables ==
    /\ entry = "huffman_tables" /\ pc = "call"
    /\ ret' = huffman_tables(jpeg_file)
    /\ pc' = "done"
    /\ UNCHANGED <<Inputs, input, res>>

\* many_till!: what the alternatives make of the input at the cursor
Segment == alt_complete(input, overflow_checks)

\* decode, preceded!(soi, ..): the start-of-image marker is there
SoiOk ==
    /\ entry = "decode" /\ pc = "soi"
    /\ soi(input).res = "Ok"
    /\ input' = soi(input).rest
    /\ pc' = "jfif"
    /\ UNCHANGED <<Inputs, res, ret>>

\* decode: no start-of-image marker, the error is mapped to a ParserError
SoiErr ==
    /\ entry = "decode" /\ pc = "soi"
    /\ soi(input).res # "Ok"
    /\ ret' = DecodeErr
    /\ pc' = "done"
    /\ UNCHANGED <<Inputs, input, res>>

\* many_till!: the end-of-image marker ends the loop, decode returns the markers
JfifEoi ==
    /\ entry = "decode" /\ pc = "jfif"
    /\ tag(input, EOI).res = "Ok"
    /\ input' = tag(input, EOI).rest
    /\ ret' = DecodeOk(res)
    /\ pc' = "done"
    /\ UNCHANGED <<Inputs, res>>

\* many_till!: one of the alternatives parses a segment
JfifSegment ==
    /\ entry = "decode" /\ pc = "jfif"
    /\ tag(input, EOI).res # "Ok"
    /\ Segment.res = "Ok"
    /\ Segment.rest # input
    /\ res' = Append(res, Segment.out)
    /\ input' = Segment.rest
    /\ UNCHANGED <<Inputs, pc, ret>>

\* many_till!: no alternative parses, the error is mapped to a ParserError
JfifErr ==
    /\ entry = "decode" /\ pc = "jfif"
    /\ tag(input, EOI).res # "Ok"
    /\ Segment.res # "Panic"
    /\ Segment.res = "Ok" => Segment.rest = input
    /\ ret' = DecodeErr
    /\ pc' = "done"
    /\ UNCHANGED <<Inputs, input, res>>

\* many_till!: length - 2 overflows under overflow checks, the call unwinds
JfifPanic ==
    /\ entry = "decode" /\ pc = "jfif"
    /\ tag(input, EOI).res # "Ok"
    /\ Segment.res = "Panic"
    /\ ret' = Panicked
    /\ pc' = "done"
    /\ UNCHANGED <<Inputs, input, res>>

HuffmanNext == CallMakeTranslationMap \/ CallHuffmanDecode

ParserNext ==
    \/ CallHuffmanTables
    \/ SoiOk
    \/ SoiErr
    \/ JfifEoi
    \/ JfifSegment
    \/ JfifErr
    \/ JfifPanic

Next == HuffmanNext \/ ParserNext

HuffmanSpec == HuffmanInit /\ [][HuffmanNext]_vars
ParserSpec == ParserInit /\ [][ParserNext]_vars
Spec == Init /\ [][Next]_vars

\* the loop of the scanner computes what the parser jpeg computes
StepsAgree ==
    (entry = "decode" /\ pc = "done") => ret = decode(jpeg_file, overflow_checks)

---------------------------------------------------------------------------
(* The canonical code of a table, as the format defines it, on unbounded   *)
(* integers.                                                               *)

\* the running code value when the symbols of length L have been assigned
RECURSIVE RunningValue(_, _)
RunningValue(symbols, L) ==
    IF L = 0 THEN 0 ELSE 2 * RunningValue(symbols, L - 1) + Len(symbols[L])

\* the code of the j-th symbol of length L
CanonicalCode(symbols, L, j) == 2 * RunningValue(symbols, L - 1) + (j - 1)

\* the positions of the symbols of a table
Positions(symbols) ==
    UNION { { <<L, j>> : j \in 1..Len(symbols[L]) } : L \in 1..NumLengths }

\* the L-bit pattern of the code of a position
Pattern(symbols, p) == BitsOf(CanonicalCode(symbols, p[1], p[2]), p[1])

\* well-formed bucket counts: at no length does the running code value exceed
\* the values of that many bits
WellFormed(symbols) ==
    \A L \in 1..NumLengths : RunningValue(symbols, L) <= Pow2(L) - 1

IsProperPrefix(a, b) == Len(a) < Len(b) /\ SubSeq(b, 1, Len(a)) = a

\* the canonical decoding of a bit sequence: at the cursor the shortest code
\* that is a window of the bits gives the next symbol; ok when the bits are
\* exactly a concatenation of codes
RECURSIVE CanonicalDecode(_, _, _, _)
CanonicalDecode(symbols, bits, cursor, out) ==
    IF cursor = Len(bits) THEN [ok |-> TRUE, out |-> out]
    ELSE LET hits == { p \in Positions(symbols) :
                         /\ cursor + p[1] <= Len(bits)
                         /\ SubSeq(bits, cursor + 1, cursor + p[1]) = Pattern(symbols, p) }
         IN  IF hits = {} THEN [ok |-> FALSE, out |-> out]
             ELSE LET first == CHOOSE p \in hits : \A q \in hits : p[1] <= q[1]
                  IN  CanonicalDecode(symbols, bits, cursor + first[1],
                                      Append(out, symbols[first[1]][first[2]]))

---------------------------------------------------------------------------
(* Claims on huffman.rs. *)

\* C1: for a table whose buckets form a valid canonical code and a buffer
\* whose bits are exactly a concatenation of codes of the table, huffman_decode
\* returns Ok with one output byte per code: the symbols of the codes, in
\* stream order, also when the last code ends at the last bit of the buffer.
C1_DecodesCodeStream ==
    (/\ entry = "huffman_decode" /\ pc = "done"
     /\ WellFormed(self.symbols)
     /\ CanonicalDecode(self.symbols, into_bitslice(code), 0, << >>).ok)
    => ret = DecodeOk(CanonicalDecode(self.symbols, into_bitslice(code), 0, << >>).out)

\* C2: for a table with well-formed bucket counts the map of
\* make_translation_map has exactly one entry per symbol position, and maps
\* the L-bit pattern of the canonical code of each position (running value
\* from 0, incremented per symbol, shifted left after each length, also after
\* an empty bucket) to the symbol stored there.
C2_CanonicalAssignment ==
    (entry = "make_translation_map" /\ pc = "done" /\ WellFormed(self.symbols))
    => /\ ret.res = "Ok"
       /\ Cardinality(DOMAIN ret.out) = Cardinality(Positions(self.symbols))
       /\ \A p \in Positions(self.symbols) :
             /\ Pattern(self.symbols, p) \in DOMAIN ret.out
             /\ ret.out[Pattern(self.symbols, p)] = self.symbols[p[1]][p[2]]

\* a well-formed table with an empty bucket between two filled ones has been mapped
C2_Witness ==
    /\ entry = "make_translation_map" /\ pc = "done" /\ ret.res = "Ok"
    /\ WellFormed(self.symbols)
    /\ \E L \in 1..(NumLengths - 2) :
          /\ Len(self.symbols[L]) = 2
          /\ self.symbols[L + 1] = << >>
          /\ Len(self.symbols[L + 2]) = 2

\* C5: for a table with well-formed bucket counts the map of
\* make_translation_map is prefix-free: no key is a proper prefix of another
\* key, and no two symbols share a key.
C5_PrefixFree ==
    (entry = "make_translation_map" /\ pc = "done" /\ WellFormed(self.symbols))
    => /\ ret.res = "Ok"
       /\ \A a, b \in DOMAIN ret.out : ~IsProperPrefix(a, b)
       /\ Cardinality(DOMAIN ret.out) = Cardinality(Positions(self.symbols))

\* a well-formed table with codes of three lengths, the longest of 16 bits,
\* has been mapped
C5_Witness ==
    /\ entry = "make_translation_map" /\ pc = "done" /\ ret.res = "Ok"
    /\ WellFormed(self.symbols)
    /\ Cardinality({ Len(k) : k \in DOMAIN ret.out }) >= 3
    /\ \E k \in DOMAIN ret.out : Len(k) = NumLengths

---------------------------------------------------------------------------
(* What a layout says of its file. *)

\* the class/id bytes of the four table classes
ClassOfByte(b) ==
    CASE b = 0  -> "LuminanceDC"
      [] b = 1  -> "LuminanceAC"
      [] b = 16 -> "ChrominanceDC"
      [] b = 17 -> "ChrominanceAC"
      [] OTHER  -> "none"

BadClass(seg) ==
    seg.kind = "dht" /\ \E k \in DOMAIN seg.tables : ClassOfByte(seg.tables[k].id_class) = "none"

\* the least length a segment of a kind can declare: the length field and the
\* fixed fields of the kind
MinLength(seg) ==
    CASE seg.kind = "generic" -> 2
      [] seg.kind = "dqt"     -> 2 + 1 + QuantLen
      [] seg.kind = "dht"     -> 2 + 1 + NumLengths
      [] seg.kind = "sos"     -> 2 + Len(MetaBytes(NoMeta))

WellFormedSeg(seg) ==
    /\ seg.declared = ExactLength(seg)
    /\ seg.kind = "dht" => (seg.tables # << >> /\ ~BadClass(seg))

\* start-of-image, well-formed segments, a scan only as the last of them,
\* end-of-image, and whatever follows it
WellFormedFile(f) ==
    /\ f.soi /\ f.eoi /\ f.cut = 0
    /\ \A k \in DOMAIN f.segs :
          /\ WellFormedSeg(f.segs[k])
          /\ f.segs[k].kind = "sos" => k = Len(f.segs)

\* the tag byte of the segment a marker was made from
MarkerTag(m) ==
    CASE m.marker = "Other" -> m.tag
      [] m.marker = "DHT"   -> DHT[2]
      [] m.marker = "DQT"   -> DQT[2]
      [] m.marker = "Image" -> SOS[2]

---------------------------------------------------------------------------
(* Claims on parser.rs. *)

\* C3: for a define-Huffman-table segment that holds one well-formed table
\* definition and declares its exact length, huffman_tables returns one table
\* whose class is the one the class/id nibbles select and whose bucket L holds
\* exactly count[L] symbol bytes, taken from the stream in ascending length
\* order, and leaves no input.
C3_OneTableParsed ==
    (/\ entry = "huffman_tables" /\ pc = "done"
     /\ ~file.soi /\ ~file.eoi /\ file.trail = << >> /\ file.cut = 0
     /\ Len(file.segs) = 1 /\ Len(file.segs[1].tables) = 1
     /\ WellFormedSeg(file.segs[1]))
    => /\ ret.res = "Ok"
       /\ ret.rest = << >>
       /\ ret.out.marker = "DHT"
       /\ Len(ret.out.tables) = 1
       /\ ret.out.tables[1].class = ClassOfByte(jpeg_file[5])
       /\ \A L \in 1..NumLengths : Len(ret.out.tables[1].symbols[L]) = jpeg_file[5 + L]
       /\ Flatten(ret.out.tables[1].symbols) = Drop(jpeg_file, 5 + NumLengths)
       /\ ret.out.tables[1].symbols = file.segs[1].tables[1].symbols

\* a ChrominanceDC table with symbols of two lengths has been parsed from its segment
C3_Witness ==
    /\ entry = "huffman_tables" /\ pc = "done" /\ ret.res = "Ok"
    /\ file.trail = << >> /\ file.cut = 0 /\ ~file.eoi
    /\ Len(file.segs) = 1 /\ Len(file.segs[1].tables) = 1 /\ WellFormedSeg(file.segs[1])
    /\ ret.out.tables[1].class = "ChrominanceDC"
    /\ Cardinality({ L \in 1..NumLengths : Len(ret.out.tables[1].symbols[L]) = 2 }) >= 2

\* C4: for a buffer of the start-of-image marker, well-formed segments and the
\* end-of-image marker, decode returns Ok with one Marker per segment, in file
\* order, and the bytes after the end-of-image marker do not change the result.
C4_MarkerPerSegment ==
    (entry = "decode" /\ pc = "done" /\ WellFormedFile(file))
    => /\ ret.res = "Ok"
       /\ Len(ret.out) = Len(file.segs)
       /\ \A k \in DOMAIN file.segs : MarkerTag(ret.out[k]) = file.segs[k].tag
       /\ ret = decode(LayoutBytes([file EXCEPT !.trail = << >>]), overflow_checks)

\* C6: decode returns an error value (it does not panic, wrap the length or
\* return a payload) for every buffer in which a segment declares a length
\* below the minimum of its kind, or which ends before the bytes a segment needs.
C6_ShortLengthIsError ==
    (/\ entry = "decode" /\ pc = "done"
     /\ \/ file.cut = 0 /\ \E k \in DOMAIN file.segs : file.segs[k].declared < MinLength(file.segs[k])
        \/ file.cut > 0 /\ ~file.eoi /\ file.segs # << >>)
    => ret.res = "Err"

\* the scanner is at a segment that is none of scan, Huffman table or
\* quantization table, declares L >= 2 and is in the buffer
GenericAt(i) ==
    /\ Len(i) >= 4
    /\ i[1] = 255 /\ i[2] \notin {SOS[2], DHT[2], DQT[2]}
    /\ SubSeq(i, 1, 2) # EOI
    /\ be_u16(Drop(i, 2)).out >= 2
    /\ Len(i) >= 2 + be_u16(Drop(i, 2)).out

\* C7: for a segment whose tag byte is none of start-of-scan, define-Huffman-
\* table or define-quantization-table and whose declared length is L >= 2, the
\* scanner produces a generic Marker with that tag byte, with the L - 2 bytes
\* after the length field as data and with L - 2 as length, and goes on at the
\* byte after them.
C7_GenericMarker ==
    [][(entry = "decode" /\ pc = "jfif" /\ GenericAt(input))
       => /\ pc' = "jfif"
          /\ res' = Append(res, [marker |-> "Other", tag |-> input[2],
                                 length |-> input[3] * 256 + input[4] - 2,
                                 data |-> SubSeq(input, 5, 2 + input[3] * 256 + input[4])])
          /\ input' = Drop(input, 2 + input[3] * 256 + input[4])]_vars

\* the scanner has made a generic Marker of a segment that declares length 4
C7_Witness ==
    /\ entry = "decode" /\ pc = "jfif"
    /\ Len(res) = 2
    /\ res[2] = [marker |-> "Other", tag |-> 224, length |-> 2, data |-> <<1, 2>>]

\* the step of the scanner that makes a scan Marker
MakesImage ==
    /\ entry = "decode" /\ pc = "jfif"
    /\ Len(res') = Len(res) + 1
    /\ res'[Len(res')].marker = "Image"

\* C8: the payload of a scan Marker is exactly the bytes from the end of the
\* scan metadata (after the declared number of 3-byte component descriptors)
\* up to, not including, the first following pair 0xFF 0xD9, which the payload
\* so never contains; the pair is then consumed as the end-of-image marker
\* that ends the scan.
C8_ScanPayload ==
    [][/\ MakesImage =>
            LET m == res'[Len(res')]
                hdr == 2 + 2 + Len(MetaBytes(NoMeta)) + 3 * input[10]
                n == Len(m.data)
            IN  /\ Len(m.metadata.component_metadata) = input[10]
                /\ hdr + n + 2 <= Len(input)
                /\ m.data = SubSeq(input, hdr + 1, hdr + n)
                /\ SubSeq(input, hdr + n + 1, hdr + n + 2) = EOI
                /\ \A j \in 0..(n - 1) : SubSeq(input, hdr + j + 1, hdr + j + 2) # EOI
                /\ input' = Drop(input, hdr + n)
       /\ (entry = "decode" /\ pc = "jfif" /\ res # << >> /\ res[Len(res)].marker = "Image")
            => (pc' = "done" /\ ret' = DecodeOk(res) /\ input' = Drop(input, 2))]_vars

\* decode has returned a scan Marker with a payload, made after another segment
C8_Witness ==
    /\ entry = "decode" /\ pc = "done" /\ ret.res = "Ok"
    /\ Len(ret.out) = 2
    /\ ret.out[2].marker = "Image"
    /\ ret.out[2].data = <<210, 207, 32>>

\* the scanner is at a define-Huffman-table segment that is in the buffer
DhtAt(i) == tag(i, DHT).res = "Ok" /\ Len(i) >= 4 /\ Len(i) >= 2 + be_u16(Drop(i, 2)).out

\* C9: the table definitions of a define-Huffman-table segment are parsed only
\* until the declared length is exhausted: the bytes consumed after the length
\* field number declared length - 2, and no byte beyond the declared length
\* is taken as part of a table definition.
C9_DeclaredLengthBounds ==
    [][(/\ entry = "decode" /\ pc = "jfif" /\ DhtAt(input)
        /\ Len(res') = Len(res) + 1
        /\ res'[Len(res')].marker = "DHT")
       => /\ Len(input) - Len(input') = 2 + be_u16(Drop(input, 2)).out
          /\ huffman_tables(SubSeq(input, 1, 2 + be_u16(Drop(input, 2)).out)).res = "Ok"
          /\ res'[Len(res')] =
                huffman_tables(SubSeq(input, 1, 2 + be_u16(Drop(input, 2)).out)).out]_vars

\* C10: decode returns an error, and no marker list, for every buffer with a
\* define-Huffman-table segment whose table definition carries a class/id
\* nibble pair other than (0,0), (0,1), (1,0), (1,1); stated for the buffers
\* in which nothing but that pair is wrong.
C10_BadClassIsError ==
    (/\ entry = "decode" /\ pc = "done"
     /\ file.soi /\ file.eoi /\ file.cut = 0
     /\ \E k \in DOMAIN file.segs : BadClass(file.segs[k])
     /\ \A k \in DOMAIN file.segs :
           /\ file.segs[k].declared = ExactLength(file.segs[k])
           /\ file.segs[k].kind = "sos" => k = Len(file.segs))
    => ret.res = "Err"

===========================================================================
